---- MODULE Spec2Model ----
(***************************************************************************)
(* WorkTrackWeb: the live camera capture component (LiveCameraCapture),     *)
(* the react-hook-form submission pipeline of the activity forms, and the   *)
(* router (AuthRouter with useUserRole) and the admin dashboard.            *)
(*                                                                         *)
(* Specifications:                                                         *)
(*   CaptureSpec      one LiveCameraCapture rendered behind a gate of its   *)
(*                    parent form (startCamera / stopCamera / capturePhoto, *)
(*                    the getUserMedia and geolocation callbacks, unmount). *)
(*   CaptureFairSpec  CaptureSpec with the callbacks of answered position   *)
(*                    requests eventually run.                              *)
(*   DeviceSpec       CaptureSpec with a second capture component of the    *)
(*                    same form asking for the same camera.                 *)
(*   Spec             one activity form (patroller, corrective or           *)
(*                    preventive): field edits, gates, evidence lists,      *)
(*                    fiber-test rows, submit, storage result, delayed      *)
(*                    reset.                                                *)
(*   AuthSpec         sign-in, sign-out, role lookup and navigation.        *)
(*   AdminSpec        the forms storing documents in Firestore and the      *)
(*                    admin dashboard fetching, filtering and exporting.    *)
(***************************************************************************)
EXTENDS Integers, Sequences, FiniteSets, TLC

\* ------------------------------------------------------------------ bounds
\* getUserMedia requests issued (Take Photo clicks)
MaxStreams == 2
\* shutter presses
MaxSnapshots == 2
\* times the parent renders the component (gate switched on)
MaxMounts == 2
\* submissions of one form under way at once: awaiting the resolver, awaiting
\* addDoc, or awaiting the delayed reset
MaxSubmits == 2
\* photos handed to one form by its capture components
MaxPhotos == 2
\* rows of the fiberTests list
MaxRows == 2
\* documents the forms have stored in Firestore
MaxDocs == 2
\* times the admin dashboard is opened
MaxFetches == 2

\* ------------------------------------------------------------------ state
VARIABLES
  \* --- LiveCameraCapture (src/replit.md:135-140) and its environment
  mounted,        \* the parent currently renders the component
  inc,            \* which incarnation of the component is (or was last) mounted
  isCapturing,    \* useState(false)
  stream,         \* useState<MediaStream|null>(null): 0 is null, else a stream id
  capturedPhoto,  \* useState<string|null>(null): 0 is null, else the frame
  acquiring,      \* getUserMedia promises not yet settled: [req, inc]
  requests,       \* getUserMedia calls made so far
  tracks,         \* per granted stream id: "none" | "live" | "stopped"
  snaps,          \* per shutter press: the closure of its geolocation callbacks
  captured,       \* onCapture calls so far, in order (the photoData passed)
  cancelled,      \* stream ids whose preview the user ended with the X button
  cameraErrors,   \* "Camera Error" toasts shown
  geolocation,    \* navigator.geolocation is defined
  srcObject,      \* videoRef.current.srcObject: the stream the rendered video
                  \* element shows (0: none, or no video element rendered)
  now             \* the wall clock (new Date())

captureVars == <<mounted, inc, isCapturing, stream, capturedPhoto, acquiring,
                 requests, tracks, snaps, captured, cancelled, cameraErrors,
                 geolocation, srcObject, now>>

  \* --- one activity form (react-hook-form state and component state)
VARIABLES
  activeForm,     \* which form component the router has mounted
  user,           \* useAuth().user
  formValues,     \* react-hook-form's current field values
  errors,         \* formState.errors: names of the fields with an error
  geoLocation,    \* CorrectiveMaintenanceForm useState(null): 0 is null
  locating,       \* getCurrentPosition requests of captureCurrentLocation pending
  loading,        \* useState(false)
  validating,     \* handleSubmit calls awaiting the zod resolver, oldest first
  inflight,       \* payloads of addDoc calls not yet settled
  resetTimers,    \* setTimeout(..., 2000) callbacks not yet run
  toast,          \* the toast the form showed last: "none" | "success" | "error"
  photoSeq,       \* photos handed to the form by onCapture so far
  \* --- bookkeeping of the operations applied since the form was last reset
  appends,        \* photos appended to the evidence list
  removals,       \* photos removed from the evidence list
  rowRemoved,     \* a fiber-test row has been removed
  \* --- bookkeeping of the submissions
  storedDocs,     \* documents stored by an addDoc whose timer has not reset
                  \* the form yet
  editedSinceSuccess, \* the user has changed the form since addDoc last
                  \* resolved and before its timer has run
  staleLocating   \* the pending position request was started before the
                  \* reset timer last ran

formVars == <<activeForm, user, formValues, errors, geoLocation, locating,
              loading, validating, inflight, resetTimers, toast, photoSeq,
              appends, removals, rowRemoved, storedDocs, editedSinceSuccess,
              staleLocating>>

  \* --- a second LiveCameraCapture of the same form (the patroller form
  \* renders one per gate), asking for the same camera
VARIABLES
  peerCapturing,  \* its useState(false) isCapturing
  peerStream,     \* its useState(null) stream: 0 is null, else a stream id
  peerAcquiring   \* its getUserMedia promises not yet settled

peerVars == <<peerCapturing, peerStream, peerAcquiring>>

  \* --- the router of the application (AuthRouter) and its hooks
VARIABLES
  authUser,       \* useAuth().user: NoAuthUser is null, else the uid
  authLoading,    \* useAuth().loading
  role,           \* useUserRole useState(null): "null" | a role
  roleLoading,    \* useUserRole useState(true) loading
  lookups,        \* uids whose getDoc(doc(db, "users", uid)) has not settled
  location,       \* the path the browser is at
  requested       \* the path last asked for (address bar, link)

authVars == <<authUser, authLoading, role, roleLoading, lookups, location,
              requested>>

  \* --- Firestore and the admin dashboard (AdminDashboard)
VARIABLES
  store,           \* per collection: its documents, newest first
  fetchPc,         \* fetchAllRecords: 0 not running, else the index of the
                   \* collection whose getDocs is awaited
  allRecords,      \* its local allRecords
  fetches,         \* times fetchAllRecords has been started
  storedAtFetch,   \* ids of the documents stored when it was last started
  fetchResult,     \* how it last ended: "none" | "ok" | "failed"
  records,         \* useState([]) records
  filteredRecords, \* useState([]) filteredRecords
  activityFilter,  \* useState("all")
  statusFilter,    \* useState("all")
  csvContent       \* what the last exportToCSV produced

adminVars == <<store, fetchPc, allRecords, fetches, storedAtFetch, fetchResult,
               records, filteredRecords, activityFilter, statusFilter,
               csvContent>>

\* what the actions of the capture component leave alone
nonCaptureVars == <<formVars, peerVars, authVars, adminVars>>

\* what the actions of a form leave alone
nonFormVars == <<captureVars, peerVars, authVars, adminVars>>

\* what the actions of the router leave alone
nonAuthVars == <<captureVars, formVars, peerVars, adminVars>>

\* what the actions of the admin dashboard leave alone
nonAdminVars == <<captureVars, formVars, peerVars, authVars>>

vars == <<captureVars, formVars, peerVars, authVars, adminVars>>

StreamIds == 1..(MaxStreams + 1)

\* the photoData object literal of the success callback
PhotoWithGPS(id, ts, img) ==
  [photoId |-> id, timestamp |-> ts, lat |-> 17, lng |-> 78, base64Image |-> img]

\* the photoData object literal of the error callback
PhotoNoGPS(id, ts, img) ==
  [photoId |-> id, timestamp |-> ts, base64Image |-> img]

\* stream.getTracks().forEach(track => track.stop()) on the stream s (0: null)
StopTracks(t, s) ==
  IF s # 0 THEN [t EXCEPT ![s] = "stopped"] ELSE t

\* ----------------------------------------------------------- capture init
CaptureInit ==
  /\ mounted = TRUE
  /\ inc = 1
  /\ isCapturing = FALSE
  /\ stream = 0
  /\ capturedPhoto = 0
  /\ acquiring = {}
  /\ requests = 0
  /\ tracks = [s \in StreamIds |-> "none"]
  /\ snaps = <<>>
  /\ captured = <<>>
  /\ cancelled = {}
  /\ cameraErrors = 0
  /\ geolocation \in BOOLEAN
  /\ srcObject = 0
  /\ now = 1

\* "Take Photo" is rendered while !isCapturing; startCamera up to its await
StartCamera ==
  /\ mounted /\ ~isCapturing
  /\ requests < MaxStreams
  /\ requests' = requests + 1
  /\ acquiring' = acquiring \cup {[req |-> requests + 1, inc |-> inc]}
  /\ UNCHANGED nonCaptureVars
  /\ UNCHANGED <<mounted, inc, isCapturing, stream, capturedPhoto, tracks,
                 snaps, captured, cancelled, cameraErrors, geolocation,
                 srcObject, now>>

\* the id of the stream the next grant creates
NextStream == Cardinality({s \in StreamIds : tracks[s] # "none"}) + 1

\* whether the video element is in the document when startCamera reaches
\* "if (videoRef.current)", given that it was (was = TRUE) or was not rendered
\* when getUserMedia resolved. The video element is rendered only while
\* isCapturing. After an await, setIsCapturing(true) re-renders at once under
\* a legacy root and only after startCamera has returned under a concurrent
\* root (batched updates): which of the two the build uses is not fixed by
\* the source, so both outcomes are possible.
VideoRefCurrent(was) == IF was THEN {TRUE} ELSE BOOLEAN

\* getUserMedia resolves: setStream(mediaStream); setIsCapturing(true);
\* if (videoRef.current) videoRef.current.srcObject = mediaStream.
\* The state setters of an unmounted incarnation do nothing, and its
\* videoRef is null.
GetUserMediaGranted(r) ==
  /\ r \in acquiring
  /\ acquiring' = acquiring \ {r}
  /\ tracks' = [tracks EXCEPT ![NextStream] = "live"]
  /\ IF mounted /\ r.inc = inc
       THEN /\ stream' = NextStream
            /\ isCapturing' = TRUE
            /\ \E element \in VideoRefCurrent(isCapturing) :
                 srcObject' = IF element THEN NextStream ELSE srcObject
       ELSE UNCHANGED <<stream, isCapturing, srcObject>>
  /\ UNCHANGED nonCaptureVars
  /\ UNCHANGED <<mounted, inc, capturedPhoto, requests, snaps, captured,
                 cancelled, cameraErrors, geolocation, now>>

\* GetUserMediaDenied with setIsCapturing(true) moved ahead of the await
GetUserMediaDeniedPreviewing(r) ==
  /\ r \in acquiring
  /\ acquiring' = acquiring \ {r}
  /\ cameraErrors' = cameraErrors + 1
  /\ isCapturing' = TRUE
  /\ UNCHANGED nonCaptureVars
  /\ UNCHANGED <<mounted, inc, stream, capturedPhoto, requests,
                 tracks, snaps, captured, cancelled, geolocation,
                 srcObject, now>>

\* getUserMedia rejects: the catch block shows the "Camera Error" toast
GetUserMediaDenied(r) ==
  /\ r \in acquiring
  /\ acquiring' = acquiring \ {r}
  /\ cameraErrors' = cameraErrors + 1
  /\ UNCHANGED nonCaptureVars
  /\ UNCHANGED <<mounted, inc, isCapturing, stream, capturedPhoto, requests,
                 tracks, snaps, captured, cancelled, geolocation,
                 srcObject, now>>

\* the X button, rendered while isCapturing: stopCamera of the current render
StopCamera ==
  /\ mounted /\ isCapturing
  /\ tracks' = StopTracks(tracks, stream)
  /\ cancelled' = cancelled \cup {stream}
  /\ stream' = 0
  /\ isCapturing' = FALSE
  /\ capturedPhoto' = 0
  /\ srcObject' = 0
  /\ UNCHANGED nonCaptureVars
  /\ UNCHANGED <<mounted, inc, acquiring, requests, snaps, captured,
                 cameraErrors, geolocation, now>>

\* what becomes of a getCurrentPosition(success, error) request: the position
\* source answers it through one of the callbacks ("pending" until it does),
\* or never answers it ("silent": no fix, a permission prompt left open). The
\* call passes no options, so its timeout is the default, Infinity, and a
\* silent request never reaches the error callback.
PositionRequests == {"pending", "silent"}

\* the shutter button, rendered while isCapturing (video and canvas exist).
\* The frame and the timestamp are taken now; the callbacks close over them
\* and over the stopCamera of this render, that is over this render's stream.
CapturePhoto ==
  /\ mounted /\ isCapturing
  /\ Len(snaps) < MaxSnapshots
  /\ capturedPhoto' = Len(snaps) + 1
  /\ \E p \in (IF geolocation THEN PositionRequests ELSE {"unsupported"}) :
       snaps' = Append(snaps,
         [base64Image |-> Len(snaps) + 1, timestamp |-> now, stream |-> stream,
          inc |-> inc, position |-> p])
  /\ now' = now + 1
  /\ UNCHANGED nonCaptureVars
  /\ UNCHANGED <<mounted, inc, isCapturing, stream, acquiring, requests,
                 tracks, captured, cancelled, cameraErrors, geolocation,
                 srcObject>>

\* what either geolocation callback does after building photoData:
\* onCapture(photoData); stopCamera() of the render that took the snapshot
Deliver(i, photoData, outcome) ==
  /\ captured' = Append(captured, photoData)
  /\ snaps' = [snaps EXCEPT ![i].position = outcome]
  /\ tracks' = StopTracks(tracks, snaps[i].stream)
  /\ IF mounted /\ snaps[i].inc = inc
       THEN /\ stream' = 0
            /\ isCapturing' = FALSE
            /\ capturedPhoto' = 0
            /\ srcObject' = 0
       ELSE UNCHANGED <<stream, isCapturing, capturedPhoto, srcObject>>
  /\ now' = now + 1
  /\ UNCHANGED nonCaptureVars
  /\ UNCHANGED <<mounted, inc, acquiring, requests, cancelled, cameraErrors,
                 geolocation>>

\* getCurrentPosition success callback of snapshot i
PositionSuccess(i) ==
  /\ i \in 1..Len(snaps)
  /\ snaps[i].position = "pending"
  /\ Deliver(i, PhotoWithGPS(<<now, i>>, snaps[i].timestamp, snaps[i].base64Image),
             "success")

\* getCurrentPosition error callback of snapshot i (denied, unavailable, timeout)
PositionError(i) ==
  /\ i \in 1..Len(snaps)
  /\ snaps[i].position = "pending"
  /\ Deliver(i, PhotoNoGPS(<<now, i>>, snaps[i].timestamp, snaps[i].base64Image),
             "error")

\* the parent stops rendering the component (gate switched off, navigation):
\* the component has no effect cleanup, its state is dropped as it is
Unmount ==
  /\ mounted
  /\ mounted' = FALSE
  /\ stream' = 0
  /\ isCapturing' = FALSE
  /\ capturedPhoto' = 0
  /\ srcObject' = 0
  /\ UNCHANGED nonCaptureVars
  /\ UNCHANGED <<inc, acquiring, requests, tracks, snaps, captured, cancelled,
                 cameraErrors, geolocation, now>>

\* the parent renders the component again: a new instance with initial state
Mount ==
  /\ ~mounted
  /\ inc < MaxMounts
  /\ mounted' = TRUE
  /\ inc' = inc + 1
  /\ UNCHANGED nonCaptureVars
  /\ UNCHANGED <<isCapturing, stream, capturedPhoto, acquiring, requests,
                 tracks, snaps, captured, cancelled, cameraErrors, geolocation,
                 srcObject,
                 now>>

\* ------------------------------------------- the second capture component
PeerInit ==
  /\ peerCapturing = FALSE
  /\ peerStream = 0
  /\ peerAcquiring = 0

\* its "Take Photo" button: startCamera up to the await
PeerStartCamera ==
  /\ ~peerCapturing
  /\ requests < MaxStreams
  /\ requests' = requests + 1
  /\ peerAcquiring' = peerAcquiring + 1
  /\ UNCHANGED <<peerCapturing, peerStream>>
  /\ UNCHANGED <<formVars, authVars, adminVars>>
  /\ UNCHANGED <<mounted, inc, isCapturing, stream, capturedPhoto, acquiring,
                 tracks, snaps, captured, cancelled, cameraErrors, geolocation,
                 srcObject,
                 now>>

\* the browser grants its request (whether or not another stream of the same
\* camera is live is the browser's business: startCamera does not ask)
PeerGetUserMediaGranted ==
  /\ peerAcquiring > 0
  /\ peerAcquiring' = peerAcquiring - 1
  /\ tracks' = [tracks EXCEPT ![NextStream] = "live"]
  /\ peerStream' = NextStream
  /\ peerCapturing' = TRUE
  /\ UNCHANGED <<formVars, authVars, adminVars>>
  /\ UNCHANGED <<mounted, inc, isCapturing, stream, capturedPhoto, acquiring,
                 requests, snaps, captured, cancelled, cameraErrors,
                 geolocation,
                 srcObject, now>>

\* the browser rejects its request: the "Camera Error" toast
PeerGetUserMediaDenied ==
  /\ peerAcquiring > 0
  /\ peerAcquiring' = peerAcquiring - 1
  /\ cameraErrors' = cameraErrors + 1
  /\ UNCHANGED <<peerCapturing, peerStream>>
  /\ UNCHANGED <<formVars, authVars, adminVars>>
  /\ UNCHANGED <<mounted, inc, isCapturing, stream, capturedPhoto, acquiring,
                 requests, tracks, snaps, captured, cancelled, geolocation,
                 srcObject, now>>

\* its X button: stopCamera
PeerStopCamera ==
  /\ peerCapturing
  /\ tracks' = StopTracks(tracks, peerStream)
  /\ peerStream' = 0
  /\ peerCapturing' = FALSE
  /\ UNCHANGED peerAcquiring
  /\ UNCHANGED <<formVars, authVars, adminVars>>
  /\ UNCHANGED <<mounted, inc, isCapturing, stream, capturedPhoto, acquiring,
                 requests, snaps, captured, cancelled, cameraErrors,
                 geolocation,
                 srcObject, now>>

PeerNext ==
  \/ PeerStartCamera
  \/ PeerGetUserMediaGranted
  \/ PeerGetUserMediaDenied
  \/ PeerStopCamera

CaptureNext ==
  \/ StartCamera
  \/ \E r \in acquiring : GetUserMediaGranted(r)
  \/ \E r \in acquiring : GetUserMediaDenied(r)
  \/ StopCamera
  \/ CapturePhoto
  \/ \E i \in 1..MaxSnapshots : PositionSuccess(i)
  \/ \E i \in 1..MaxSnapshots : PositionError(i)
  \/ Unmount
  \/ Mount

\* ================================================================ the forms
Forms == {"patroller", "corrective", "preventive"}

\* what a text input can hold: empty or some text
Texts == {"", "x"}

\* a JavaScript number held by a numeric field: NaN or an integer
Num(n) == [nan |-> FALSE, n |-> n]

NaN == [nan |-> TRUE, n |-> 0]

\* what a type="number" input can hold: nothing, or digits
NumberTexts == {"", "0"}

\* register(name, { valueAsNumber: true }): the field value react-hook-form
\* stores for the text of the input ('' becomes NaN, otherwise +value)
ValueAsNumber(t) == IF t = "" THEN NaN ELSE Num(0)

\* z.number().int().min(0).optional() applied to a stored number
ValidCount(c) == ~c.nan /\ c.n >= 0

\* useForm defaultValues of each form (the fields the pipeline depends on:
\* a required text, the gates with a dependent field, the evidence list,
\* the repeatable rows)
DefaultValues(f) ==
  CASE f = "patroller" ->
         [mandalName |-> "", clampDamaged |-> FALSE,
          clampDamagePhotos |-> <<>>, tensionClampCount |-> Num(0)]
    [] f = "corrective" ->
         [presentLocation |-> "", cutLocationPhotos |-> <<>>]
    [] f = "preventive" ->
         [mandalName |-> "",
          fiberTests |-> <<[fiberNo |-> "1", distance |-> 0, cumulativeLoss |-> 0]>>]

\* the zod schema of each form: the names of the fields that fail it
SchemaErrors(f, v) ==
  CASE f = "patroller" ->
         {n \in {"mandalName"} : v.mandalName = ""}
         \cup {n \in {"tensionClampCount"} : ~ValidCount(v.tensionClampCount)}
    [] f = "corrective" ->
         {n \in {"presentLocation"} : v.presentLocation = ""}
         \cup {n \in {"cutLocationPhotos"} : Len(v.cutLocationPhotos) < 1}
    [] f = "preventive" ->
         {n \in {"mandalName"} : v.mandalName = ""}
         \cup {n \in {"fiberTests"} :
                 \/ Len(v.fiberTests) < 1
                 \/ \E i \in 1..Len(v.fiberTests) : v.fiberTests[i].distance < 0}

\* the Firestore collection each onSubmit writes to
CollectionOf(f) ==
  CASE f = "patroller" -> "patroller_activities"
    [] f = "corrective" -> "corrective_maintenance"
    [] f = "preventive" -> "preventive_maintenance"

\* the activityType literal of each onSubmit
ActivityTypeOf(f) ==
  CASE f = "patroller" -> "Patroller Task & Observations"
    [] f = "corrective" -> "Corrective Maintenance"
    [] f = "preventive" -> "FRT Daily Activity - Preventive Maintenance"

\* the object literal handed to addDoc: {...data, userId, userEmail, createdAt,
\* submittedAt, activityType} (and currentGeoLocation in the corrective form)
Payload(f, data, geo, u) ==
  LET stamped ==
        data @@
        [userId |-> u.uid, userEmail |-> u.email, createdAt |-> "client clock",
         submittedAt |-> "client clock", activityType |-> ActivityTypeOf(f)]
  IN  IF f = "corrective" THEN stamped @@ [currentGeoLocation |-> geo]
                          ELSE stamped

\* useAuth().user while nobody is signed in (null)
NoUser == [uid |-> "", email |-> ""]

\* form.reset(): every field back to its default value
Reset(f) == DefaultValues(f)

FormInit ==
  /\ activeForm \in Forms
  /\ user = [uid |-> "u1", email |-> "u1@quadgen"]
  /\ formValues = DefaultValues(activeForm)
  /\ errors = {}
  /\ geoLocation = 0
  /\ locating = 0
  /\ loading = FALSE
  /\ validating = <<>>
  /\ inflight = <<>>
  /\ resetTimers = 0
  /\ toast = "none"
  /\ photoSeq = 0
  /\ appends = 0
  /\ removals = 0
  /\ rowRemoved = FALSE
  /\ storedDocs = {}
  /\ editedSinceSuccess = FALSE
  /\ staleLocating = FALSE

pipelineVars == <<loading, validating, inflight, resetTimers, toast,
                  storedDocs>>

\* bookkeeping of a handler that changes what the form holds
Edited == editedSinceSuccess' = (resetTimers > 0)

countVars == <<appends, removals, rowRemoved>>

\* Every handler below except the submit handler runs as a task of its own (a
\* user input event, a timer, a network or geolocation callback). The zod
\* resolver that form.handleSubmit awaits settles in promise jobs, which the
\* event loop runs before it starts another task; only events dispatched
\* within the submitting task itself come before them.
TaskMayStart == validating = <<>>

\* ------------------------------------------------------------- field edits
\* typing into the required text input of the form
TypeText(t) ==
  /\ TaskMayStart
  /\ t \in Texts
  /\ \/ /\ activeForm \in {"patroller", "preventive"}
        /\ formValues.mandalName # t
        /\ formValues' = [formValues EXCEPT !.mandalName = t]
     \/ /\ activeForm = "corrective"
        /\ formValues.presentLocation # t
        /\ formValues' = [formValues EXCEPT !.presentLocation = t]
  /\ UNCHANGED <<activeForm, user, errors, geoLocation, locating,
                 staleLocating, photoSeq>>
  /\ Edited
  /\ UNCHANGED <<pipelineVars, nonFormVars>>
  /\ UNCHANGED countVars

\* the patroller gate Switch:
\* onCheckedChange={(checked) => form.setValue("clampDamaged", checked)}.
\* setValue without shouldValidate leaves formState.errors as it is, and the
\* dependent inputs that unmount keep their values (shouldUnregister is off).
SetClampDamaged(b) ==
  /\ TaskMayStart
  /\ b \in BOOLEAN
  /\ activeForm = "patroller"
  /\ formValues.clampDamaged # b
  /\ formValues' = [formValues EXCEPT !.clampDamaged = b]
  /\ UNCHANGED <<activeForm, user, errors, geoLocation, locating,
                 staleLocating, photoSeq>>
  /\ Edited
  /\ UNCHANGED <<pipelineVars, nonFormVars>>
  /\ UNCHANGED countVars

\* typing into the Tension Clamp Count input, rendered while clampDamaged
TypeClampCount(t) ==
  /\ TaskMayStart
  /\ t \in NumberTexts
  /\ activeForm = "patroller"
  /\ formValues.clampDamaged
  /\ formValues.tensionClampCount # ValueAsNumber(t)
  /\ formValues' = [formValues EXCEPT !.tensionClampCount = ValueAsNumber(t)]
  /\ UNCHANGED <<activeForm, user, errors, geoLocation, locating,
                 staleLocating, photoSeq>>
  /\ Edited
  /\ UNCHANGED <<pipelineVars, nonFormVars>>
  /\ UNCHANGED countVars

\* the photoData a capture component hands to its onCapture
NewPhoto ==
  PhotoWithGPS(photoSeq + 1, photoSeq + 1, photoSeq + 1)

\* patroller addPhotoToField("clampDamagePhotos", photo), called by the capture
\* component rendered while clampDamaged
AddPhotoToField ==
  /\ TaskMayStart
  /\ activeForm = "patroller"
  /\ formValues.clampDamaged
  /\ photoSeq < MaxPhotos
  /\ photoSeq' = photoSeq + 1
  /\ formValues' = [formValues EXCEPT
       !.clampDamagePhotos = Append(@, NewPhoto)]
  /\ UNCHANGED <<activeForm, user, errors, geoLocation, locating, staleLocating>>
  /\ Edited
  /\ UNCHANGED <<pipelineVars, nonFormVars>>
  /\ appends' = appends + 1
  /\ UNCHANGED <<removals, rowRemoved>>

\* corrective handleCutLocationPhotoCapture: appendPhoto(photoData)
AppendPhoto ==
  /\ TaskMayStart
  /\ activeForm = "corrective"
  /\ photoSeq < MaxPhotos
  /\ photoSeq' = photoSeq + 1
  /\ formValues' = [formValues EXCEPT
       !.cutLocationPhotos = Append(@, NewPhoto)]
  /\ UNCHANGED <<activeForm, user, errors, geoLocation, locating, staleLocating>>
  /\ Edited
  /\ UNCHANGED <<pipelineVars, nonFormVars>>
  /\ appends' = appends + 1
  /\ UNCHANGED <<removals, rowRemoved>>

\* the sequence s without its i-th element
RemoveAt(s, i) == [k \in 1..(Len(s) - 1) |-> IF k < i THEN s[k] ELSE s[k + 1]]

\* corrective "Remove" button of the i-th captured photo: removePhoto(index)
RemovePhoto(i) ==
  /\ TaskMayStart
  /\ activeForm = "corrective"
  /\ i \in 1..Len(formValues.cutLocationPhotos)
  /\ formValues' = [formValues EXCEPT !.cutLocationPhotos = RemoveAt(@, i)]
  /\ UNCHANGED <<activeForm, user, errors, geoLocation, locating,
                 staleLocating, photoSeq>>
  /\ Edited
  /\ UNCHANGED <<pipelineVars, nonFormVars>>
  /\ removals' = removals + 1
  /\ UNCHANGED <<appends, rowRemoved>>

\* corrective captureCurrentLocation: the GPS button starts a position request
CaptureCurrentLocation ==
  /\ TaskMayStart
  /\ activeForm = "corrective"
  /\ locating = 0
  /\ staleLocating' = FALSE
  /\ locating' = 1
  /\ UNCHANGED <<activeForm, user, formValues, errors, geoLocation, photoSeq>>
  /\ UNCHANGED <<pipelineVars, editedSinceSuccess, nonFormVars>>
  /\ UNCHANGED countVars

\* its success callback: setGeoLocation(location); setValue("presentLocation")
LocationCaptured ==
  /\ TaskMayStart
  /\ activeForm = "corrective"
  /\ locating > 0
  /\ staleLocating' = FALSE
  /\ locating' = locating - 1
  /\ geoLocation' = 1
  /\ formValues' = [formValues EXCEPT !.presentLocation = "x"]
  /\ UNCHANGED <<activeForm, user, errors, photoSeq>>
  /\ Edited
  /\ UNCHANGED <<pipelineVars, nonFormVars>>
  /\ UNCHANGED countVars

\* preventive addFiberTest: append({fiberNo: "1", distance: 0, cumulativeLoss: 0})
AddFiberTest ==
  /\ TaskMayStart
  /\ activeForm = "preventive"
  /\ Len(formValues.fiberTests) < MaxRows
  /\ formValues' = [formValues EXCEPT
       !.fiberTests = Append(@, [fiberNo |-> "1", distance |-> 0, cumulativeLoss |-> 0])]
  /\ UNCHANGED <<activeForm, user, errors, geoLocation, locating,
                 staleLocating, photoSeq>>
  /\ Edited
  /\ UNCHANGED <<pipelineVars, nonFormVars>>
  /\ UNCHANGED countVars

\* RemoveFiberTest with the trash button rendered on every row
RemoveFiberTestUnguarded(i) ==
  /\ TaskMayStart
  /\ activeForm = "preventive"
  /\ i \in 1..Len(formValues.fiberTests)
  /\ formValues' = [formValues EXCEPT !.fiberTests = RemoveAt(@, i)]
  /\ rowRemoved' = TRUE
  /\ UNCHANGED <<activeForm, user, errors, geoLocation, locating, staleLocating, photoSeq,
                 appends, removals>>
  /\ Edited
  /\ UNCHANGED <<pipelineVars, nonFormVars>>

\* preventive trash button of row i, rendered only when fields.length > 1
RemoveFiberTest(i) ==
  /\ TaskMayStart
  /\ activeForm = "preventive"
  /\ i \in 1..Len(formValues.fiberTests)
  /\ Len(formValues.fiberTests) > 1
  /\ formValues' = [formValues EXCEPT !.fiberTests = RemoveAt(@, i)]
  /\ UNCHANGED <<activeForm, user, errors, geoLocation, locating,
                 staleLocating, photoSeq>>
  /\ Edited
  /\ UNCHANGED <<pipelineVars, nonFormVars>>
  /\ rowRemoved' = TRUE
  /\ UNCHANGED <<appends, removals>>

\* the "Reset Form" button: onClick={() => form.reset()}
ResetClick ==
  /\ TaskMayStart
  /\ formValues' = Reset(activeForm)
  /\ errors' = {}
  /\ UNCHANGED <<activeForm, user, geoLocation, locating, staleLocating, photoSeq>>
  /\ UNCHANGED <<pipelineVars, editedSinceSuccess, nonFormVars>>
  /\ appends' = 0 /\ removals' = 0 /\ rowRemoved' = FALSE

\* ------------------------------------------------------ submission pipeline
\* a submit event on the form; the submit button is disabled={loading}.
\* form.handleSubmit(onSubmit) takes the values and awaits the zod resolver;
\* onSubmit is the closure of this render, with this render's geoLocation.
\* Nothing in the form keeps a second submit event from being handled while
\* the resolver of the first is still pending.
SubmitClick ==
  /\ ~loading
  /\ Len(validating) + Len(inflight) + resetTimers < MaxSubmits
  /\ validating' = Append(validating, [data |-> formValues, geo |-> geoLocation])
  /\ UNCHANGED nonFormVars
  /\ UNCHANGED <<activeForm, user, formValues, errors, geoLocation, locating, staleLocating,
                 loading, inflight, resetTimers, toast, photoSeq, storedDocs,
                 editedSinceSuccess>>
  /\ UNCHANGED countVars

\* ValidationDone with onSubmit called whatever the resolver reports
ValidationDoneUnchecked ==
  /\ validating # <<>>
  /\ validating' = Tail(validating)
  /\ LET v == Head(validating)
     IN  /\ errors' = SchemaErrors(activeForm, v.data)
         /\ IF user # NoUser
              THEN /\ loading' = TRUE
                   /\ inflight' = Append(inflight,
                        [collection |-> CollectionOf(activeForm),
                         doc |-> Payload(activeForm, v.data, v.geo, user)])
              ELSE UNCHANGED <<loading, inflight>>
  /\ UNCHANGED nonFormVars
  /\ UNCHANGED <<activeForm, user, formValues, geoLocation, locating, staleLocating,
                 resetTimers, toast, photoSeq, storedDocs,
                 editedSinceSuccess>>
  /\ UNCHANGED countVars

\* the resolver settles for the oldest handleSubmit: with errors they are
\* reported and onSubmit is not called; otherwise onSubmit runs up to its
\* await: if (!user) return; setLoading(true); addDoc(collection, payload)
ValidationDone ==
  /\ validating # <<>>
  /\ validating' = Tail(validating)
  /\ LET v == Head(validating)
         e == SchemaErrors(activeForm, v.data)
     IN  /\ errors' = e
         /\ IF e = {} /\ user # NoUser
              THEN /\ loading' = TRUE
                   /\ inflight' = Append(inflight,
                        [collection |-> CollectionOf(activeForm),
                         doc |-> Payload(activeForm, v.data, v.geo, user)])
              ELSE UNCHANGED <<loading, inflight>>
  /\ UNCHANGED nonFormVars
  /\ UNCHANGED <<activeForm, user, formValues, geoLocation, locating, staleLocating,
                 resetTimers, toast, photoSeq, storedDocs,
                 editedSinceSuccess>>
  /\ UNCHANGED countVars

\* addDoc resolves: setShowSuccess(true); the "Success!" toast;
\* setTimeout(reset, 2000); finally setLoading(false)
StorageSuccess(i) ==
  /\ TaskMayStart
  /\ i \in 1..Len(inflight)
  /\ inflight' = RemoveAt(inflight, i)
  /\ toast' = "success"
  /\ resetTimers' = resetTimers + 1
  /\ loading' = FALSE
  /\ storedDocs' = storedDocs \cup {inflight[i].doc}
  /\ editedSinceSuccess' = FALSE
  /\ UNCHANGED nonFormVars
  /\ UNCHANGED <<activeForm, user, formValues, errors, geoLocation, locating, staleLocating,
                 validating, photoSeq>>
  /\ UNCHANGED countVars

\* StorageFailure with a form.reset() in the catch block
StorageFailureResets(i) ==
  /\ TaskMayStart
  /\ i \in 1..Len(inflight)
  /\ inflight' = RemoveAt(inflight, i)
  /\ toast' = "error"
  /\ loading' = FALSE
  /\ formValues' = Reset(activeForm)
  /\ UNCHANGED nonFormVars
  /\ UNCHANGED <<activeForm, user, errors, geoLocation, locating, staleLocating,
                 validating, resetTimers, photoSeq, storedDocs,
                 editedSinceSuccess>>
  /\ UNCHANGED countVars

\* StorageFailure without the finally block
StorageFailureKeepsLoading(i) ==
  /\ TaskMayStart
  /\ i \in 1..Len(inflight)
  /\ inflight' = RemoveAt(inflight, i)
  /\ toast' = "error"
  /\ UNCHANGED nonFormVars
  /\ UNCHANGED <<activeForm, user, formValues, errors, geoLocation, locating,
                 staleLocating, loading, validating, resetTimers, photoSeq,
                 storedDocs, editedSinceSuccess>>
  /\ UNCHANGED countVars

\* addDoc rejects: catch shows the destructive "Error" toast; finally
\* setLoading(false)
StorageFailure(i) ==
  /\ TaskMayStart
  /\ i \in 1..Len(inflight)
  /\ inflight' = RemoveAt(inflight, i)
  /\ toast' = "error"
  /\ loading' = FALSE
  /\ UNCHANGED nonFormVars
  /\ UNCHANGED <<activeForm, user, formValues, errors, geoLocation, locating, staleLocating,
                 validating, resetTimers, photoSeq, storedDocs,
                 editedSinceSuccess>>
  /\ UNCHANGED countVars

\* ResetTimerFires without the setGeoLocation(null) of the corrective form
ResetTimerKeepsGeoLocation ==
  /\ TaskMayStart
  /\ resetTimers > 0
  /\ resetTimers' = resetTimers - 1
  /\ formValues' = Reset(activeForm)
  /\ errors' = {}
  /\ storedDocs' = {}
  /\ editedSinceSuccess' = FALSE
  /\ staleLocating' = (locating > 0)
  /\ UNCHANGED nonFormVars
  /\ UNCHANGED <<activeForm, user, geoLocation, locating, loading, validating,
                 inflight, toast, photoSeq>>
  /\ appends' = 0 /\ removals' = 0 /\ rowRemoved' = FALSE

\* the 2000 ms timer of a success: setShowSuccess(false); form.reset();
\* and setGeoLocation(null) in the corrective form
ResetTimerFires ==
  /\ TaskMayStart
  /\ resetTimers > 0
  /\ resetTimers' = resetTimers - 1
  /\ formValues' = Reset(activeForm)
  /\ errors' = {}
  /\ storedDocs' = {}
  /\ editedSinceSuccess' = FALSE
  /\ staleLocating' = (locating > 0)
  /\ geoLocation' = 0
  /\ UNCHANGED nonFormVars
  /\ UNCHANGED <<activeForm, user, locating, loading, validating, inflight,
                 toast, photoSeq>>
  /\ appends' = 0 /\ removals' = 0 /\ rowRemoved' = FALSE

FormNext ==
  \/ \E t \in Texts : TypeText(t)
  \/ \E b \in BOOLEAN : SetClampDamaged(b)
  \/ \E t \in NumberTexts : TypeClampCount(t)
  \/ AddPhotoToField
  \/ AppendPhoto
  \/ \E i \in 1..MaxPhotos : RemovePhoto(i)
  \/ CaptureCurrentLocation
  \/ LocationCaptured
  \/ AddFiberTest
  \/ \E i \in 1..MaxRows : RemoveFiberTest(i)
  \/ ResetClick
  \/ SubmitClick
  \/ ValidationDone
  \/ \E i \in 1..MaxSubmits : StorageSuccess(i)
  \/ \E i \in 1..MaxSubmits : StorageFailure(i)
  \/ ResetTimerFires

\* =============================================================== the router
\* useAuth().user while nobody is signed in (null)
NoAuthUser == "none"

\* the accounts: an admin, a field user, an account whose users/{uid}
\* document has an empty role field, an account with no document
Uids == {"admin1", "user1", "norole1", "nodoc1"}

\* the users/{uid} document of each account
UserDoc(uid) ==
  CASE uid = "admin1" -> [exists |-> TRUE, role |-> "admin"]
    [] uid = "user1" -> [exists |-> TRUE, role |-> "user"]
    [] uid = "norole1" -> [exists |-> TRUE, role |-> ""]
    [] uid = "nodoc1" -> [exists |-> FALSE, role |-> ""]

\* fetchUserRole after getDoc resolved: userData.role || "user", and "user"
\* when the document does not exist
RoleOf(d) ==
  IF d.exists THEN (IF d.role = "" THEN "user" ELSE d.role) ELSE "user"

\* the paths a browser can be sent to: the routes of AuthRouter that matter
\* here and one path no route matches
Paths == {"/login", "/", "/activity-selector", "/admin-dashboard",
          "/gp-dashboard", "/patroller-form", "/nowhere"}

\* what a route renders: a component, or a <Redirect to=.../>
Component(n, rr) == [kind |-> "component", name |-> n, requiredRole |-> rr]

Redirect(to) == [kind |-> "redirect", name |-> to, requiredRole |-> "none"]

\* <ProtectedRoute requiredRole=...>: what it renders for a signed-in user.
\* With no requiredRole, or with the role it requires, its children; else
\* whatever it shows in their place.
ProtectedRoute(requiredRole, r, child) ==
  IF requiredRole = "none" \/ r = requiredRole
    THEN [child EXCEPT !.requiredRole = requiredRole]
    ELSE Component("ProtectedRoute", requiredRole)

\* the <Switch> AuthRouter renders while nobody is signed in
LoginSwitch(path) ==
  IF path = "/login" THEN Component("LoginPage", "none") ELSE Redirect("/login")

\* the <Switch> AuthRouter renders for a signed-in user
Routes(path, r) ==
  CASE path = "/admin-dashboard" ->
         ProtectedRoute("admin", r, Component("AdminDashboard", "none"))
    [] path = "/gp-dashboard" ->
         ProtectedRoute("admin", r, Component("GPDashboard", "none"))
    [] path = "/activity-selector" ->
         ProtectedRoute("none", r,
           IF r = "admin" THEN Redirect("/admin-dashboard")
                          ELSE Component("ActivitySelector", "none"))
    [] path = "/patroller-form" ->
         ProtectedRoute("none", r, Component("PatrollerMaintenanceForm", "none"))
    [] path \in {"/login", "/"} ->
         Redirect(IF r = "admin" THEN "/admin-dashboard" ELSE "/activity-selector")
    [] OTHER -> Component("NotFound", "none")

\* Render without the if (!user) branch
RenderWithoutLoginSwitch(path, u, aL, r, rL) ==
  IF aL \/ (u # NoAuthUser /\ rL)
    THEN Component("LoadingSpinner", "none")
    ELSE Routes(path, r)

\* AuthRouter: what it renders at a path for the values of its two hooks
Render(path, u, aL, r, rL) ==
  IF aL \/ (u # NoAuthUser /\ rL)
    THEN Component("LoadingSpinner", "none")
    ELSE IF u = NoAuthUser
           THEN LoginSwitch(path)
           ELSE Routes(path, r)

\* the path the browser ends at once every <Redirect> rendered has navigated
RECURSIVE Settle(_, _, _, _, _)
Settle(path, u, aL, r, rL) ==
  LET e == Render(path, u, aL, r, rL)
  IN  IF e.kind = "redirect" THEN Settle(e.name, u, aL, r, rL) ELSE path

\* what is on the screen
Screen == Render(location, authUser, authLoading, role, roleLoading)

\* the application is mounted: useAuth has not heard from Firebase yet; the
\* effect of useUserRole has run once with no user (setRole(null);
\* setLoading(false))
AuthInit ==
  /\ authUser = NoAuthUser
  /\ authLoading = TRUE
  /\ role = "null"
  /\ roleLoading = FALSE
  /\ lookups = {}
  /\ location \in Paths
  /\ requested = location

\* the router as it is while a signed-in field user fills a form
AuthSettled ==
  /\ authUser = "user1"
  /\ authLoading = FALSE
  /\ role = "user"
  /\ roleLoading = FALSE
  /\ lookups = {}
  /\ location = "/patroller-form"
  /\ requested = location

\* useAuth reports a user (or none): the first answer of Firebase, a sign-in
\* or a sign-out. When the user changed, the effect of useUserRole runs:
\* without a user setRole(null); setLoading(false), with a user the lookup
\* getDoc(doc(db, "users", user.uid)) starts (loading is not set again).
\* AuthRouter renders with the new values and its redirects navigate.
AuthStateChanged(u) ==
  /\ u \in Uids \cup {NoAuthUser}
  /\ authLoading \/ u # authUser
  /\ authUser' = u
  /\ authLoading' = FALSE
  /\ IF u = authUser
       THEN UNCHANGED <<role, roleLoading, lookups>>
       ELSE IF u = NoAuthUser
              THEN /\ role' = "null"
                   /\ roleLoading' = FALSE
                   /\ UNCHANGED lookups
              ELSE /\ lookups' = lookups \cup {u}
                   /\ UNCHANGED <<role, roleLoading>>
  /\ location' = Settle(location, u, FALSE, role', roleLoading')
  /\ UNCHANGED requested
  /\ UNCHANGED nonAuthVars

\* a getDoc resolves: setRole(userData.role || "user"), or setRole("user")
\* when there is no document; finally setLoading(false)
RoleLookupDone(u) ==
  /\ u \in lookups
  /\ lookups' = lookups \ {u}
  /\ role' = RoleOf(UserDoc(u))
  /\ roleLoading' = FALSE
  /\ location' = Settle(location, authUser, authLoading, role', FALSE)
  /\ UNCHANGED <<authUser, authLoading, requested>>
  /\ UNCHANGED nonAuthVars

\* a getDoc rejects: catch setRole("user"); finally setLoading(false)
RoleLookupFailed(u) ==
  /\ u \in lookups
  /\ lookups' = lookups \ {u}
  /\ role' = "user"
  /\ roleLoading' = FALSE
  /\ location' = Settle(location, authUser, authLoading, role', FALSE)
  /\ UNCHANGED <<authUser, authLoading, requested>>
  /\ UNCHANGED nonAuthVars

\* the user opens a path (address bar, link, back button)
Navigate(p) ==
  /\ p \in Paths
  /\ p # location
  /\ requested' = p
  /\ location' = Settle(p, authUser, authLoading, role, roleLoading)
  /\ UNCHANGED <<authUser, authLoading, role, roleLoading, lookups>>
  /\ UNCHANGED nonAuthVars

AuthNext ==
  \/ \E u \in Uids \cup {NoAuthUser} : AuthStateChanged(u)
  \/ \E u \in Uids : RoleLookupDone(u)
  \/ \E u \in Uids : RoleLookupFailed(u)
  \/ \E p \in Paths : Navigate(p)

\* ====================================================== the admin dashboard
\* the Firestore collections the forms write to
Collections == {"patroller_activities", "corrective_maintenance",
                "preventive_maintenance"}

\* the forms that store documents: the three maintenance forms and the
\* earlier CorrectiveForm, which has a description field
Writers == Forms \cup {"correctiveLegacy"}

\* values of a form that pass its schema
ValidValues(f) ==
  CASE f = "patroller" -> [DefaultValues(f) EXCEPT !.mandalName = "x"]
    [] f = "corrective" ->
         [presentLocation |-> "x",
          cutLocationPhotos |-> <<PhotoWithGPS(1, 1, 1)>>]
    [] f = "preventive" -> [DefaultValues(f) EXCEPT !.mandalName = "x"]

\* the object literal CorrectiveForm hands to addDoc
LegacyPayload(u) ==
  [equipmentId |-> "x", description |-> "x", userId |-> u.uid,
   userEmail |-> u.email, status |-> "pending",
   createdAt |-> "serverTimestamp()", updatedAt |-> "serverTimestamp()"]

\* what a writer stores and where
DocOf(w, u) ==
  IF w = "correctiveLegacy"
    THEN [collection |-> "corrective_maintenance", data |-> LegacyPayload(u)]
    ELSE [collection |-> CollectionOf(w),
          data |-> Payload(w, ValidValues(w), 0, u)]

\* the documents stored so far
StoredCount ==
  Len(store["patroller_activities"]) + Len(store["corrective_maintenance"])
    + Len(store["preventive_maintenance"])

StoredIds == 1..StoredCount

\* the collections array of fetchAllRecords, in order
FetchedCollections ==
  <<[name |-> "preventive_maintenance", type |-> "Preventive"],
    [name |-> "corrective_maintenance", type |-> "Corrective"],
    [name |-> "change_requests", type |-> "Change Request"]>>

\* the value of a property no document field provides
Undefined == "undefined"

\* the record fetchAllRecords pushes for a document:
\* {id, type, status: data.status || "pending", description: data.description,
\*  ...data}
ToRecord(col, d) ==
  [id |-> d.id, type |-> col.type,
   status |-> IF "status" \in DOMAIN d.data THEN d.data.status ELSE "pending",
   description |-> IF "description" \in DOMAIN d.data
                     THEN d.data.description ELSE Undefined]

\* getDocs(query(collection(db, name), orderBy("createdAt", "desc"))): the
\* documents of the collection (none for a collection no form writes to)
GetDocs(name) == IF name \in Collections THEN store[name] ELSE <<>>

\* querySnapshot.forEach(doc => allRecords.push(...))
PushAll(col, docs) == [i \in 1..Len(docs) |-> ToRecord(col, docs[i])]

\* the elements of a sequence that satisfy a test, in order
RECURSIVE Filter(_, _)
Filter(seq, keep) ==
  IF seq = <<>> THEN <<>>
  ELSE (IF Head(seq) \in keep THEN <<Head(seq)>> ELSE <<>>)
         \o Filter(Tail(seq), keep)

\* applyFilters (with no date chosen)
ApplyFilters(rs, af, sf) ==
  LET ok == {r \in {rs[i] : i \in 1..Len(rs)} :
               /\ (af # "all" => r.type = af)
               /\ (sf # "all" => r.status = sf)}
  IN  Filter(rs, ok)

\* the line exportToCSV builds for a record
CsvLine(r) == <<r.id, r.type, r.status, <<"\"", r.description, "\"">>>>

\* exportToCSV: record.description.replace(...) throws a TypeError for a
\* record whose description is undefined, before anything is downloaded
ExportResult(frs) ==
  IF \E i \in 1..Len(frs) : frs[i].description = Undefined
    THEN [error |-> TRUE, lines |-> <<>>]
    ELSE [error |-> FALSE,
          lines |-> <<<<"ID", "Type", "Status", "Description">>>>
                      \o [i \in 1..Len(frs) |-> CsvLine(frs[i])]]

\* the items of the activity Select and of the status Select
ActivityFilters == {"all", "Preventive", "Corrective", "Change Request"}

StatusFilters == {"all", "pending", "in-progress", "completed", "cancelled"}

AdminInit ==
  /\ store = [c \in Collections |-> <<>>]
  /\ fetchPc = 0
  /\ allRecords = <<>>
  /\ fetches = 0
  /\ storedAtFetch = {}
  /\ fetchResult = "none"
  /\ records = <<>>
  /\ filteredRecords = <<>>
  /\ activityFilter = "all"
  /\ statusFilter = "all"
  /\ csvContent = [error |-> FALSE, lines |-> <<>>]

\* the addDoc of some form's onSubmit resolves: the document is stored
DocumentStored(w) ==
  /\ w \in Writers
  /\ StoredCount < MaxDocs
  /\ LET d == DocOf(w, user)
     IN  store' = [store EXCEPT ![d.collection] =
                     <<[id |-> StoredCount + 1, data |-> d.data]>> \o @]
  /\ UNCHANGED <<fetchPc, allRecords, fetches, storedAtFetch, fetchResult,
                 records, filteredRecords, activityFilter, statusFilter,
                 csvContent>>
  /\ UNCHANGED nonAdminVars

\* the dashboard is mounted: useState initial values, then
\* useEffect(() => { fetchAllRecords(); }, []) up to its first await
FetchAllRecords ==
  /\ fetchPc = 0
  /\ fetches < MaxFetches
  /\ fetches' = fetches + 1
  /\ fetchPc' = 1
  /\ allRecords' = <<>>
  /\ storedAtFetch' = StoredIds
  /\ fetchResult' = "none"
  /\ records' = <<>>
  /\ filteredRecords' = <<>>
  /\ activityFilter' = "all"
  /\ statusFilter' = "all"
  /\ UNCHANGED <<store, csvContent>>
  /\ UNCHANGED nonAdminVars

\* the awaited getDocs resolves: its documents are pushed; after the last
\* collection setRecords(allRecords), and the effect on [records, ...] runs
\* applyFilters
GetDocsResolved ==
  /\ fetchPc \in 1..Len(FetchedCollections)
  /\ LET col == FetchedCollections[fetchPc]
         all == allRecords \o PushAll(col, GetDocs(col.name))
     IN  IF fetchPc < Len(FetchedCollections)
           THEN /\ allRecords' = all
                /\ fetchPc' = fetchPc + 1
                /\ UNCHANGED <<records, filteredRecords, fetchResult>>
           ELSE /\ allRecords' = all
                /\ fetchPc' = 0
                /\ records' = all
                /\ filteredRecords' = ApplyFilters(all, activityFilter, statusFilter)
                /\ fetchResult' = "ok"
  /\ UNCHANGED <<store, fetches, storedAtFetch, activityFilter, statusFilter,
                 csvContent>>
  /\ UNCHANGED nonAdminVars

\* the awaited getDocs rejects: catch shows the error toast, records stay
GetDocsRejected ==
  /\ fetchPc \in 1..Len(FetchedCollections)
  /\ fetchPc' = 0
  /\ fetchResult' = "failed"
  /\ UNCHANGED <<store, allRecords, fetches, storedAtFetch, records,
                 filteredRecords, activityFilter, statusFilter, csvContent>>
  /\ UNCHANGED nonAdminVars

\* the activity Select: setActivityFilter, then the effect runs applyFilters
SetActivityFilter(a) ==
  /\ a \in ActivityFilters
  /\ a # activityFilter
  /\ fetches > 0
  /\ activityFilter' = a
  /\ filteredRecords' = ApplyFilters(records, a, statusFilter)
  /\ UNCHANGED <<store, fetchPc, allRecords, fetches, storedAtFetch,
                 fetchResult, records, statusFilter, csvContent>>
  /\ UNCHANGED nonAdminVars

\* the status Select: setStatusFilter, then the effect runs applyFilters
SetStatusFilter(f) ==
  /\ f \in StatusFilters
  /\ f # statusFilter
  /\ fetches > 0
  /\ statusFilter' = f
  /\ filteredRecords' = ApplyFilters(records, activityFilter, f)
  /\ UNCHANGED <<store, fetchPc, allRecords, fetches, storedAtFetch,
                 fetchResult, records, activityFilter, csvContent>>
  /\ UNCHANGED nonAdminVars

\* the "Export to CSV" button
ExportToCSV ==
  /\ fetches > 0
  /\ csvContent' = ExportResult(filteredRecords)
  /\ UNCHANGED <<store, fetchPc, allRecords, fetches, storedAtFetch,
                 fetchResult, records, filteredRecords, activityFilter,
                 statusFilter>>
  /\ UNCHANGED nonAdminVars

AdminNext ==
  \/ \E w \in Writers : DocumentStored(w)
  \/ FetchAllRecords
  \/ GetDocsResolved
  \/ GetDocsRejected
  \/ \E a \in ActivityFilters : SetActivityFilter(a)
  \/ \E f \in StatusFilters : SetStatusFilter(f)
  \/ ExportToCSV

\* ---------------------------------------------------------- specifications
\* the capture component inside the patroller form, whose state stays put
CaptureSpecInit ==
  /\ CaptureInit
  /\ FormInit
  /\ PeerInit
  /\ AuthSettled
  /\ AdminInit
  /\ activeForm = "patroller"

CaptureSpec == CaptureSpecInit /\ [][CaptureNext]_vars

\* CaptureSpec with the scheduling the browser guarantees: a position request
\* the source answers gets one of its callbacks run
CaptureFairSpec ==
  /\ CaptureSpec
  /\ \A i \in 1..MaxSnapshots : WF_vars(PositionSuccess(i) \/ PositionError(i))

\* two capture components of the patroller form and the one camera
DeviceNext ==
  \/ CaptureNext
  \/ PeerNext

DeviceSpec == CaptureSpecInit /\ [][DeviceNext]_vars

\* one form; its capture components appear through their onCapture calls
Init ==
  /\ FormInit
  /\ CaptureInit /\ geolocation = TRUE
  /\ PeerInit
  /\ AuthSettled
  /\ AdminInit

Next == FormNext

Spec == Init /\ [][Next]_vars

\* the router from the moment the application is mounted
AuthSpecInit ==
  /\ AuthInit
  /\ CaptureInit /\ geolocation = TRUE
  /\ FormInit /\ activeForm = "patroller"
  /\ PeerInit
  /\ AdminInit

AuthSpec == AuthSpecInit /\ [][AuthNext]_vars

\* the router as it is while the admin is on the dashboard
AuthAdmin ==
  /\ authUser = "admin1"
  /\ authLoading = FALSE
  /\ role = "admin"
  /\ roleLoading = FALSE
  /\ lookups = {}
  /\ location = "/admin-dashboard"
  /\ requested = location

\* Firestore, written by the forms, and the admin dashboard reading it
AdminSpecInit ==
  /\ AdminInit
  /\ AuthAdmin
  /\ CaptureInit /\ geolocation = TRUE
  /\ FormInit /\ activeForm = "patroller"
  /\ PeerInit

AdminSpec == AdminSpecInit /\ [][AdminNext]_vars

\* =================================================================== claims
\* ------------------------------------------------------------ CaptureSpec

\* C1: every granted MediaStream with unstopped tracks is the one the mounted
\* component holds in its state (and can therefore still stop); no stream is
\* left live after cancel, capture, error or unmount.
C1_StreamReleasedOnEveryExit ==
  \A s \in StreamIds : tracks[s] = "live" => (mounted /\ stream = s)

\* C2: every snapshot whose position request failed, or could not be made
\* because the position source is unavailable, has been handed to onCapture
\* with no lat/lng and with photoId, timestamp and base64Image set.
C2_CaptureNeverFailsOnPosition ==
  \A i \in 1..Len(snaps) :
    snaps[i].position \in {"error", "unsupported"} =>
      \E k \in 1..Len(captured) :
        /\ captured[k].base64Image = snaps[i].base64Image
        /\ captured[k].timestamp = snaps[i].timestamp
        /\ DOMAIN captured[k] = {"photoId", "timestamp", "base64Image"}

\* C3: no evidence is passed to onCapture for a session (stream) the user has
\* cancelled with stopCamera.
C3_CancelEmitsNoEvidence ==
  [][Len(captured') > Len(captured) =>
       snaps[captured'[Len(captured')].base64Image].stream \notin cancelled]_vars

\* ------------------------------------------------------------------- Spec

\* the evidence fields of a form that are required for the values v: the
\* patroller capture component is rendered with `required` while its gate is
\* true; the corrective cut-location photos are always required
RequiredEvidence(f, v) ==
  CASE f = "patroller" ->
         IF v.clampDamaged THEN {"clampDamagePhotos"} ELSE {}
    [] f = "corrective" -> {"cutLocationPhotos"}
    [] f = "preventive" -> {}

\* C4: every document handed to addDoc holds at least one item in every
\* evidence field that was required at submit time.
C4_RequiredEvidenceEnforced ==
  \A k \in 1..Len(inflight) :
    \A n \in RequiredEvidence(activeForm, inflight[k].doc) :
      Len(inflight[k].doc[n]) >= 1

\* C5: a document handed to addDoc while the gate clampDamaged is false does
\* not contain the dependent field clampDamagePhotos.
C5_SubmitSkipsGatedFields ==
  \A k \in 1..Len(inflight) :
    (activeForm = "patroller" /\ ~inflight[k].doc.clampDamaged)
      => "clampDamagePhotos" \notin DOMAIN inflight[k].doc

\* C6: a form instance never has two addDoc calls pending at once.
C6_NoDoubleSubmit == Len(inflight) <= 1

\* the session state of the form is what it was when the form was mounted
SessionInitial ==
  /\ formValues = DefaultValues(activeForm)
  /\ geoLocation = 0
  /\ errors = {}

\* C7: every storage success shows the success toast, releases the submit
\* guard and schedules the delayed reset, and when that reset runs every
\* evidence list, row list, gate and the captured geolocation are back at
\* their initial value.
C7_ResetOnSuccess ==
  [][/\ ((Len(inflight') < Len(inflight) /\ toast' = "success") =>
           (resetTimers' = resetTimers + 1 /\ ~loading'))
     /\ (resetTimers' < resetTimers => SessionInitial')]_vars

\* C7 witness: a corrective record with a captured photo was stored and the
\* delayed reset has run.
C7_Witness ==
  /\ toast = "success" /\ resetTimers = 0 /\ photoSeq > 0
  /\ activeForm = "corrective"
  /\ SessionInitial

\* C8: a storage failure is signalled with the error toast, changes no field
\* value, evidence list, row or captured geolocation, and leaves the submit
\* button enabled.
C8_StateSurvivesFailedSubmit ==
  [][(Len(inflight') < Len(inflight) /\ resetTimers' = resetTimers) =>
       /\ toast' = "error"
       /\ formValues' = formValues
       /\ geoLocation' = geoLocation
       /\ errors' = errors
       /\ ~loading']_vars

\* C8 witness: after a failed submit the corrective form still holds its photo
\* and can be submitted again.
C8_Witness ==
  /\ toast = "error" /\ ~loading /\ inflight = <<>>
  /\ activeForm = "corrective"
  /\ Len(formValues.cutLocationPhotos) >= 1
  /\ SchemaErrors(activeForm, formValues) = {}
  /\ ENABLED SubmitClick

\* C9: the fiberTests list always has at least one row.
C9_RowFloor ==
  activeForm = "preventive" => Len(formValues.fiberTests) >= 1

\* C9 witness: a row was removed and one row is left, whose trash button is
\* not offered.
C9_Witness ==
  /\ activeForm = "preventive"
  /\ rowRemoved
  /\ Len(formValues.fiberTests) = 1
  /\ ~ENABLED RemoveFiberTest(1)

\* the evidence list of the form
EvidenceList ==
  CASE activeForm = "patroller" -> formValues.clampDamagePhotos
    [] activeForm = "corrective" -> formValues.cutLocationPhotos
    [] activeForm = "preventive" -> <<>>

\* C10: the length of an evidence list is the number of appends minus the
\* number of removals, and while the field is required its validation fails
\* exactly when the list is empty.
C10_EvidenceAppendInvariant ==
  /\ Len(EvidenceList) = appends - removals
  /\ \A n \in RequiredEvidence(activeForm, formValues) :
       (n \in SchemaErrors(activeForm, formValues)) <=> (Len(formValues[n]) = 0)

\* the fields of a form that are not rendered for the values v, because the
\* gate they depend on is false
HiddenFields(f, v) ==
  IF f = "patroller"
    THEN (IF v.clampDamaged
            THEN {}
            ELSE {"clampDamagePhotos", "tensionClampCount"})
    ELSE {}

\* C11: no validation error is held for a field hidden by a false gate: the
\* errors of the dependents are cleared when the gate goes false, and a value
\* left invalid in a hidden field does not fail the validation of a submit.
C11_GateClearInvariant ==
  errors \cap HiddenFields(activeForm, formValues) = {}

\* C16: every document handed to addDoc passes the schema of its form, and a
\* submit whose values fail the schema writes no document and changes nothing
\* of the form but the reported errors.
C16_ValidationBlocksSubmission ==
  [][/\ \A k \in 1..Len(inflight') :
          SchemaErrors(activeForm, inflight'[k].doc) = {}
     /\ (/\ Len(validating') < Len(validating)
         /\ SchemaErrors(activeForm, Head(validating).data) # {})
        => /\ errors' = SchemaErrors(activeForm, Head(validating).data)
           /\ inflight' = inflight
           /\ formValues' = formValues
           /\ geoLocation' = geoLocation
           /\ loading' = loading
           /\ toast' = toast /\ resetTimers' = resetTimers]_vars

\* C16 witness: a corrective form with its location filled and no photo was
\* submitted: the missing photo is reported and nothing was sent.
C16_Witness ==
  /\ activeForm = "corrective"
  /\ formValues.presentLocation = "x"
  /\ errors = {"cutLocationPhotos"}
  /\ validating = <<>> /\ inflight = <<>> /\ ~loading /\ toast = "none"

\* C17: every document handed to addDoc carries the identity of the submitting
\* user, the activityType of its form and status "pending".
C17_SystemAttachedFields ==
  \A k \in 1..Len(inflight) :
    LET d == inflight[k].doc
    IN  /\ {"userId", "userEmail", "activityType", "status"} \subseteq DOMAIN d
        /\ d.userId = user.uid
        /\ d.activityType = ActivityTypeOf(activeForm)
        /\ d.status = "pending"

\* C18: no timestamp of a document handed to addDoc is read from the client
\* clock.
C18_ServerAssignedTimestamp ==
  \A k \in 1..Len(inflight) :
    \A n \in {"createdAt", "submittedAt"} \cap DOMAIN inflight[k].doc :
      inflight[k].doc[n] # "client clock"

\* -------------------------------------------------- CaptureSpec, continued

\* the onCapture calls made so far for snapshots of the stream s
EmittedFor(s) ==
  {k \in 1..Len(captured) : snaps[captured[k].base64Image].stream = s}

\* C12: for every granted stream, onCapture has been called at most once with
\* a snapshot taken from that stream.
C12_OneSnapshotPerAcquisition ==
  \A s \in StreamIds : Cardinality(EmittedFor(s)) <= 1

C15_SnapshotCompletes ==
  \A i \in 1..MaxSnapshots :
    (geolocation /\ Len(snaps) >= i) ~>
      (/\ Len(snaps) >= i
       /\ snaps[i].position \in {"success", "error"}
       /\ tracks[snaps[i].stream] = "stopped")

\* ------------------------------------------------------------- DeviceSpec

\* C14: the two capture components of a form are never both previewing, each
\* holding a granted stream of the camera.
C14_ExclusiveAcquisition ==
  ~(/\ isCapturing /\ stream # 0 /\ tracks[stream] = "live"
    /\ peerCapturing /\ peerStream # 0 /\ tracks[peerStream] = "live")

\* --------------------------------------------------------------- AuthSpec

\* C19: when an account whose users/{uid} document has role "admin" signs
\* in, the browser is not sent to, or left on, /activity-selector.
C19_RoleBasedRedirect ==
  [][(/\ authUser' # authUser
      /\ authUser' # NoAuthUser
      /\ UserDoc(authUser').exists /\ UserDoc(authUser').role = "admin")
     => location' # "/activity-selector"]_vars

\* C20: while nobody is signed in and useAuth has finished loading, the
\* browser is at /login showing the login page, whatever path was asked for;
\* and a dashboard is only ever on the screen inside a ProtectedRoute with
\* requiredRole "admin".
C20_ProtectedRoutes ==
  /\ (authUser = NoAuthUser /\ ~authLoading) =>
       (location = "/login" /\ Screen = Component("LoginPage", "none"))
  /\ Screen.name \in {"AdminDashboard", "GPDashboard"} =>
       Screen.requiredRole = "admin"

\* C20 witness: nobody is signed in, /admin-dashboard was asked for, and the
\* browser is at /login showing the login page.
C20_Witness ==
  /\ authUser = NoAuthUser /\ ~authLoading
  /\ requested = "/admin-dashboard"
  /\ location = "/login"
  /\ Screen.name = "LoginPage"

\* C30: whenever a storage call returns, with success or with failure, the
\* submit guard is released (loading is false), and loading is true only
\* while a storage call is in flight.
C30_SubmitGuardReleased ==
  [][/\ Len(inflight') < Len(inflight) => ~loading'
     /\ loading' => Len(inflight') > 0]_vars

\* a storage call has succeeded and a later one has failed: the guard is
\* released and the button can be clicked again
C30_Witness ==
  /\ toast = "error"
  /\ resetTimers > 0
  /\ inflight = <<>>
  /\ ~loading
  /\ ENABLED SubmitClick

\* C23: the timestamp of a photo is that of its snapshot, and the photos one
\* capture field has collected carry non-decreasing timestamps in collection
\* order, whatever the interleaving of snapshots and position callbacks.
C23_CapturedAtOrdering ==
  /\ \A k \in 1..Len(captured) :
       \E i \in 1..Len(snaps) :
         /\ captured[k].base64Image = snaps[i].base64Image
         /\ captured[k].timestamp = snaps[i].timestamp
  /\ \A j, k \in 1..Len(captured) :
       j < k => captured[j].timestamp <= captured[k].timestamp

\* the getUserMedia requests of the mounted component that are not settled
Outstanding == {r \in acquiring : mounted /\ r.inc = inc}

\* C27: the mounted component has at most one getUserMedia request pending,
\* none while it holds a stream, and of the streams granted to the first
\* incarnation only the one in its state is live.
C27_SingleAcquisition ==
  /\ Cardinality(Outstanding) <= 1
  /\ (mounted /\ stream # 0) => Outstanding = {}
  /\ (mounted /\ inc = 1) => \A s \in StreamIds : tracks[s] = "live" => s = stream

\* C24: whenever the component is previewing (isCapturing with a granted
\* stream in state), that stream is bound to the rendered video element.
C24_PreviewingMeansBound ==
  (mounted /\ isCapturing /\ stream # 0) => srcObject = stream

\* C25: between the success of a storage call and the reset of the form, no
\* addDoc is issued with the contents of a document that is already stored.
C25_OneDocumentPerFilledForm ==
  [][Len(inflight') > Len(inflight) =>
       inflight'[Len(inflight')].doc \notin storedDocs]_vars

\* C26: the reset timer does not discard what was entered after the success,
\* and a position callback whose request was started before that reset does
\* not change the geolocation or a field of the fresh form.
C26_NoLeakageAcrossSubmissions ==
  [][/\ (resetTimers' < resetTimers /\ editedSinceSuccess)
          => formValues' = formValues
     /\ (staleLocating /\ locating' < locating)
          => (geoLocation' = geoLocation /\ formValues' = formValues)]_vars

\* C28: the role is only ever set to the role of the user who is signed in
\* ("user" when that user's lookup fails, null without a user), and loading
\* is true as long as the lookup of the signed-in user is pending.
C28_RoleSettlesToCurrentUser ==
  [][/\ role' # role =>
          role' \in (IF authUser' = NoAuthUser
                       THEN {"null"}
                       ELSE {RoleOf(UserDoc(authUser')), "user"})
     /\ (authUser' # NoAuthUser /\ authUser' \in lookups') => roleLoading']_vars

\* C29: the role reported is "admin" only if the signed-in user's document
\* exists with role "admin", and it is null while no user is signed in.
C29_RoleLookupFailsClosed ==
  /\ role = "admin" =>
       /\ authUser # NoAuthUser
       /\ UserDoc(authUser).exists
       /\ UserDoc(authUser).role = "admin"
  /\ authUser = NoAuthUser => role = "null"

\* -------------------------------------------------------------- AdminSpec

\* the ids of the records of a list
IdsOf(rs) == {rs[i].id : i \in 1..Len(rs)}

\* C21: once fetchAllRecords has completed, every document that was stored
\* when it started is in the record list of the dashboard.
C21_AdminTableAggregatesAll ==
  fetchResult = "ok" => storedAtFetch \subseteq IdsOf(records)

\* C22: every exportToCSV completes without error and produces the header
\* line followed by exactly one line per filtered record, in table order.
C22_ExportAllVisibleRecords ==
  [][csvContent' # csvContent =>
       /\ ~csvContent'.error
       /\ Len(csvContent'.lines) = 1 + Len(filteredRecords)
       /\ \A i \in 1..Len(filteredRecords) :
            csvContent'.lines[i + 1][1] = filteredRecords[i].id]_vars

====
